---------------------------- MODULE Spec2Model ----------------------------
(***************************************************************************)
(* A model of cache_manager (src/src/main.rs): the CacheManager struct,    *)
(* the recursive directory measurement and cleaning functions, the         *)
(* auto-clean policy, and the eframe update cycle that drives them.        *)
(*                                                                         *)
(* Byte counts (u64) are pairs [g, b] meaning g * 2^30 + b bytes, and f32  *)
(* gigabyte values are pairs [g, b] meaning g + b / 2^30 GB: TLC integers  *)
(* are 32 bits wide, the program's counters are 64.  The cast to f32 is    *)
(* modelled with its 24 bit significand and round-half-to-even.            *)
(*                                                                         *)
(* The monotonic clock (Instant) is a count of whole seconds.              *)
(***************************************************************************)
EXTENDS Integers, Sequences, FiniteSets

\* ------------------------------------------------------------------ bounds

\* The clock stops advancing here.
MaxTime == 31

\* The amounts by which the clock advances in one step.
Deltas == {10, 19, 21}

\* ------------------------------------------------------- program constants

\* 1024.0 * 1024.0 * 1024.0: bytes in one (binary) gigabyte.
GiB == 1073741824

\* Duration::from_secs(30)
Cooldown == 30

\* Significand width of an f32.
F32Bits == 24

\* ------------------------------------------------------------ u64 and f32

Bytes(g, b) == [g |-> g, b |-> b]

Zero == Bytes(0, 0)

\* total_size += x   (u64; sums stay far below 2^64 within the bounds).
\* The two operands are bound by a quantifier so that each is evaluated once.
AddBytes(x, y) ==
    CHOOSE r \in {Bytes(v[1].g + v[2].g + ((v[1].b + v[2].b) \div GiB),
                        (v[1].b + v[2].b) % GiB) : v \in {<<x, y>>}} : TRUE

RECURSIVE Log2(_)
\* floor(log2 n) for n >= 1
Log2(n) == IF n <= 1 THEN 0 ELSE 1 + Log2(n \div 2)

RECURSIVE Pow2(_)
Pow2(k) == IF k = 0 THEN 1 ELSE 2 * Pow2(k - 1)

\* The spacing of f32 values around the integer x.  (The exponent is bound
\* by a quantifier so that it is evaluated once.)
Ulp(x) ==
    IF x.g = 0
    THEN IF x.b < Pow2(F32Bits) THEN 1
         ELSE CHOOSE u \in {Pow2(k) : k \in {Log2(x.b) - (F32Bits - 1)}} : TRUE
    ELSE CHOOSE u \in {Pow2(k) : k \in {Log2(x.g) + 30 - (F32Bits - 1)}} : TRUE

\* x rounded to a multiple of the spacing u: to the nearest, ties to even.
RoundTo(x, u) ==
    LET q  == x.b \div u
        r  == x.b % u
        up == (2 * r > u) \/ (2 * r = u /\ q % 2 = 1)
        b2 == (IF up THEN q + 1 ELSE q) * u
    IN  IF b2 >= GiB THEN Bytes(x.g + 1, b2 - GiB) ELSE Bytes(x.g, b2)

\* (total_size as f32): nearest f32, ties to even.
ToF32(x) ==
    CHOOSE y \in {RoundTo(v[1], v[2]) : v \in {<<x, Ulp(x)>>}} : TRUE

\* (total_size as f32) / (1024.0 * 1024.0 * 1024.0): dividing an f32 by 2^30
\* is exact, so the GB value g + b / 2^30 has the pair of the rounded count.
ToGB(x) == ToF32(x)

\* A strict comparison in place of >=.
F32Ge_Strict(a, b) == a.g > b.g \/ (a.g = b.g /\ a.b > b.b)

\* a >= b on f32 values
F32Ge(a, b) == a.g > b.g \/ (a.g = b.g /\ a.b >= b.b)

\* ------------------------------------------------------------- filesystem

R    == <<"r">>
RF   == <<"r", "f">>
RD   == <<"r", "d">>
RDG  == <<"r", "d", "g">>
RDE  == <<"r", "d", "e">>
RDEH == <<"r", "d", "e", "h">>
S    == <<"s">>
SK   == <<"s", "k">>

Paths == {R, RF, RD, RDG, RDE, RDEH, S, SK}

\* What the operating system holds at a path.  kind: "none" (no entry),
\* "file", "dir", "other" (a symbolic link or special file: neither is_file
\* nor is_dir).  locked: remove_file / remove_dir fails.  meta_ok: the
\* entry's metadata can be read.  list_ok: read_dir of the directory works.
Entry(kind, size, locked, meta_ok, list_ok) ==
    [kind |-> kind, size |-> size, locked |-> locked,
     meta_ok |-> meta_ok, list_ok |-> list_ok]

NoEntry   == Entry("none", Zero, FALSE, TRUE, TRUE)
Dir       == Entry("dir", Zero, FALSE, TRUE, TRUE)
DirNoList == Entry("dir", Zero, FALSE, TRUE, FALSE)
Other     == Entry("other", Zero, FALSE, TRUE, TRUE)
File(size)       == Entry("file", size, FALSE, TRUE, TRUE)
LockedFile(size) == Entry("file", size, TRUE, TRUE, TRUE)
NoMetaFile(size) == Entry("file", size, FALSE, FALSE, TRUE)

Parent(p) == SubSeq(p, 1, Len(p) - 1)

Children(p) == {q \in Paths : Len(q) = Len(p) + 1 /\ Parent(q) = p}

\* p lies below the directory root.
IsUnder(root, p) == Len(p) > Len(root) /\ SubSeq(p, 1, Len(root)) = root

\* fs::read_dir(path) is Ok
ReadDirOk(f, p) == f[p].kind = "dir" /\ f[p].list_ok

\* The entries read_dir yields.
Listing(f, p) == {q \in Children(p) : f[q].kind # "none"}

RECURSIVE calculate_dir_size(_, _)
RECURSIVE SizeOfEntries(_, _)

RECURSIVE SizeOfEntries_CountsUnreadable(_, _)
\* SizeOfEntries adding the length of an entry without looking at whether its
\* metadata could be read.
SizeOfEntries_CountsUnreadable(f, es) ==
    IF es = {} THEN Zero
    ELSE LET e    == CHOOSE x \in es : TRUE
             here == IF f[e].kind = "file" THEN f[e].size
                     ELSE IF f[e].kind = "dir" THEN calculate_dir_size(f, e)
                     ELSE Zero
         IN  AddBytes(here, SizeOfEntries_CountsUnreadable(f, es \ {e}))

\* One iteration of the loop of calculate_dir_size, folded over the listing.
SizeOfEntries(f, es) ==
    IF es = {} THEN Zero
    ELSE LET e    == CHOOSE x \in es : TRUE
             here == IF ~f[e].meta_ok THEN Zero
                     ELSE IF f[e].kind = "file" THEN f[e].size
                     ELSE IF f[e].kind = "dir" THEN calculate_dir_size(f, e)
                     ELSE Zero
         IN  AddBytes(here, SizeOfEntries(f, es \ {e}))

calculate_dir_size(f, p) ==
    IF ReadDirOk(f, p) THEN SizeOfEntries(f, Listing(f, p)) ELSE Zero

RECURSIVE SumRoots_AbortOnUnreadable(_, _, _)
\* The sum over the roots failing as a whole, to 0, when a root cannot be read.
SumRoots_AbortOnUnreadable(f, dirs, i) ==
    IF i > Len(dirs) THEN Zero
    ELSE IF \E j \in i..Len(dirs) : ~ReadDirOk(f, dirs[j]) THEN Zero
    ELSE AddBytes(calculate_dir_size(f, dirs[i]),
                  SumRoots_AbortOnUnreadable(f, dirs, i + 1))

RECURSIVE SumRoots_SkipNested(_, _, _)
\* The sum over the roots leaving out a root that lies below an earlier one.
SumRoots_SkipNested(f, dirs, i) ==
    IF i > Len(dirs) THEN Zero
    ELSE IF \E j \in 1..(i - 1) :
                /\ Len(dirs[i]) > Len(dirs[j])
                /\ SubSeq(dirs[i], 1, Len(dirs[j])) = dirs[j]
         THEN SumRoots_SkipNested(f, dirs, i + 1)
    ELSE AddBytes(calculate_dir_size(f, dirs[i]),
                  SumRoots_SkipNested(f, dirs, i + 1))

RECURSIVE SumRoots(_, _, _)
SumRoots(f, dirs, i) ==
    IF i > Len(dirs) THEN Zero
    ELSE AddBytes(calculate_dir_size(f, dirs[i]), SumRoots(f, dirs, i + 1))

\* total_size is summed first and converted once.
get_cache_size(f, dirs) ==
    CHOOSE gb \in {ToGB(total_size) : total_size \in {SumRoots(f, dirs, 1)}} : TRUE


\* The state clean_directory works on: the filesystem and the two
\* accumulators the caller passes by reference.
CleanAcc(f, count, size) == [fs |-> f, count |-> count, size |-> size]

\* A directory with no entry left in it.
IsEmptyDir(f, p) == \A q \in Children(p) : f[q].kind = "none"

\* fs::remove_file(path).is_ok()
RemoveFileOk(f, p) == f[p].kind = "file" /\ ~f[p].locked

\* fs::remove_dir(path) succeeds: only on an empty directory.
RemoveDirOk(f, p) == f[p].kind = "dir" /\ ~f[p].locked /\ IsEmptyDir(f, p)

Unlink(f, p) == [f EXCEPT ![p] = NoEntry]

\* *cleaned_count += 1   (u32; counts stay far below 2^32 within the bounds)
AddCount(n) == n + 1

RECURSIVE clean_directory(_, _)
RECURSIVE CleanEntries(_, _)

\* CleanFile counting a file whether or not remove_file succeeded.
CleanFile_CountsFailures(st, e) ==
    CleanAcc(IF RemoveFileOk(st.fs, e) THEN Unlink(st.fs, e) ELSE st.fs,
             AddCount(st.count), AddBytes(st.size, st.fs[e].size))

\* CleanFile reading the length of the file after it has removed it.
CleanFile_SizeAfterDelete(st, e) ==
    IF RemoveFileOk(st.fs, e)
    THEN CleanAcc(Unlink(st.fs, e), AddCount(st.count),
                  AddBytes(st.size, Unlink(st.fs, e)[e].size))
    ELSE st

\* The branch of the loop of clean_directory for a regular file.
CleanFile(st, e) ==
    IF RemoveFileOk(st.fs, e)
    THEN CleanAcc(Unlink(st.fs, e), AddCount(st.count),
                  AddBytes(st.size, st.fs[e].size))
    ELSE st

\* CleanSubdir that cleans the subdirectory and never tries to remove it.
CleanSubdir_NoRemove(st, e) == clean_directory(st, e)

\* CleanSubdir trying to remove the directory before it recurses.
CleanSubdir_RemoveFirst(st, e) ==
    IF RemoveDirOk(st.fs, e)
    THEN CleanAcc(Unlink(st.fs, e), st.count, st.size)
    ELSE clean_directory(st, e)

\* The branch for a subdirectory: recurse, then try to remove it.
CleanSubdir(st, e) ==
    CHOOSE r \in {IF RemoveDirOk(in.fs, e)
                  THEN CleanAcc(Unlink(in.fs, e), in.count, in.size)
                  ELSE in : in \in {clean_directory(st, e)}} : TRUE

\* One iteration of the loop of clean_directory.
CleanEntry(st, e) ==
    IF ~st.fs[e].meta_ok THEN st
    ELSE IF st.fs[e].kind = "file" THEN CleanFile(st, e)
    ELSE IF st.fs[e].kind = "dir" THEN CleanSubdir(st, e)
    ELSE st

\* The loop of clean_directory: the entries one after the other, each on
\* the state the one before has left.
CleanEntries(st, es) ==
    IF es = {} THEN st
    ELSE LET e == CHOOSE x \in es : TRUE
         IN  CHOOSE r \in {CleanEntries(next, es \ {e}) :
                              next \in {CleanEntry(st, e)}} : TRUE

clean_directory(st, p) ==
    IF ReadDirOk(st.fs, p) THEN CleanEntries(st, Listing(st.fs, p)) ELSE st

\* ------------------------------------------------------------------ state

VARIABLES
    fs,               \* the filesystem: Paths -> Entry
    now,              \* the monotonic clock, in seconds
    config,           \* Config: cache_threshold_gb, auto_clean_enabled
    last_clean_time,  \* Option<Instant>: <<>> is None, <<t>> is Some(t)
    cache_size_gb,    \* f32
    is_cleaning,      \* bool
    status_message,   \* the String: which message, and the numbers in it
    cache_dirs,       \* Vec<PathBuf>
    pc,               \* where the update cycle stands
    caller,           \* who called clean_cache: "auto", "manual", "none"
    idx,              \* clean_cache: the next root of the for loop
    cleaned_count,    \* clean_cache: u32 local
    cleaned_size,     \* clean_cache: u64 local
    decision,         \* what should_auto_clean returned in this cycle
    pass_end,         \* history: when clean_cache last returned, <<>> or <<t>>
    pass_start_fs,    \* history: the filesystem when the running clean_cache
                      \* was called (outside clean_cache: the filesystem)
    \* The traversals step by step (unused where they are taken as one step):
    stack,            \* the calls of calculate_dir_size or clean_directory in
                      \* progress, outermost first: path and ReadDir iterator
    total_size,       \* get_cache_size: u64 local
    visits,           \* history: how often each directory was listed for the
                      \* root being walked
    created,          \* history: the files another process has created
    late,             \* history: those created after read_dir of their
                      \* directory had been called in the pass
    settled,          \* history: those created when the pass had no read_dir
                      \* of their directory open or still to come
    removed,          \* history: the files removed by remove_file, in order
    \* The mutex around last_clean_time (unused where one thread runs alone):
    holder,           \* the thread that holds the MutexGuard, or "none"
    tpc,              \* where each thread stands
    seen,             \* what each thread last read through its guard
    written           \* history: the values stored so far, None included

walkvars == <<stack, total_size, visits, created, late, settled, removed>>

lockvars == <<holder, tpc, seen, written>>

vars == <<fs, now, config, last_clean_time, cache_size_gb, is_cleaning,
          status_message, cache_dirs, pc, caller, idx, cleaned_count,
          cleaned_size, decision, pass_end, pass_start_fs,
          stack, total_size, visits, created, late, settled, removed,
          holder, tpc, seen, written>>

\* The status line.  files and gb are the arguments of the format! of
\* clean_cache, and zero in the fixed messages.
Msg(kind, files, gb) == [kind |-> kind, files |-> files, gb |-> gb]

FixedMsg(kind) == Msg(kind, 0, Zero)

Config(thr, en) == [cache_threshold_gb |-> thr, auto_clean_enabled |-> en]

\* impl Default for Config
DefaultConfig == Config(Bytes(10, 0), TRUE)

\* A configuration load_config read from the file.
LoadedConfigs == {Config(Bytes(1, 0), FALSE)}

\* The values the threshold slider is moved to (range 1.0..=100.0, step 1.0).
SliderValues == {Bytes(1, 0), Bytes(5, 0)}

\* Instant::elapsed of a stored instant
Elapsed(t) == now - t

\* should_auto_clean without the cooldown test.
should_auto_clean_NoCooldown ==
    IF ~config.auto_clean_enabled THEN FALSE
    ELSE F32Ge(cache_size_gb, config.cache_threshold_gb)

\* should_auto_clean without the test of the enabled flag.
should_auto_clean_IgnoresFlag ==
    IF last_clean_time # <<>> /\ Elapsed(last_clean_time[1]) < Cooldown
    THEN FALSE
    ELSE F32Ge(cache_size_gb, config.cache_threshold_gb)

\* should_auto_clean(&self)
should_auto_clean ==
    IF ~config.auto_clean_enabled THEN FALSE
    ELSE IF last_clean_time # <<>> /\ Elapsed(last_clean_time[1]) < Cooldown
         THEN FALSE
    ELSE F32Ge(cache_size_gb, config.cache_threshold_gb)

\* ------------------------------------------------------- initial states

\* File sizes of the trees the model starts from.
SizeF == Bytes(1, 0)           \* exactly 1 GB
SizeG == Bytes(4, 0)           \* exactly 4 GB
SizeH == Bytes(0, 16777217)    \* 2^24 + 1 bytes: not an f32
SizeK == Bytes(0, 3)

FileSlot(size) == {NoEntry, File(size), LockedFile(size)}

\* The trees below root r; with needD the directory r/d exists.  Where r/d
\* is a symbolic link to a directory, r/d/g is the file seen through it.
TreesR(needD) ==
    {[p \in {R, RF, RD, RDG, RDE, RDEH} |->
        CASE p = R    -> Dir
          [] p = RF   -> f
          [] p = RD   -> d
          [] p = RDG  -> IF d.kind = "dir" THEN g
                         ELSE IF d.kind = "other" /\ g = File(SizeG) THEN g
                         ELSE NoEntry
          [] p = RDE  -> IF d.kind = "dir" THEN e ELSE NoEntry
          [] p = RDEH -> IF d.kind = "dir" /\ e.kind = "dir" THEN h ELSE NoEntry] :
        f \in FileSlot(SizeF),
        d \in IF needD THEN {Dir} ELSE {NoEntry, Other, Dir},
        g \in FileSlot(SizeG) \cup {NoMetaFile(SizeG)},
        e \in {NoEntry, Dir, Other},
        h \in FileSlot(SizeH)}

\* The trees below root s.
TreesS ==
    {[p \in {S, SK} |-> CASE p = S -> d [] p = SK -> File(SizeK)] :
        d \in {Dir, DirNoList}}

EmptyS == [p \in {S, SK} |-> IF p = S THEN Dir ELSE NoEntry]

Join(a, b) == [p \in Paths |-> IF p \in DOMAIN a THEN a[p] ELSE b[p]]

\* get_cache_directories: the roots found, each existing.  Either two
\* separate roots, or one root and a directory below it.
InitialWorlds ==
    {[dirs |-> <<R, S>>, fs |-> Join(a, b)] : a \in TreesR(FALSE), b \in TreesS}
    \cup {[dirs |-> ds, fs |-> Join(a, EmptyS)] :
            ds \in {<<R, RD>>}, a \in TreesR(TRUE)}

\* CacheManager::new, with the roots and the filesystem of one of worlds.
InitIn(worlds) ==
    /\ \E w \in worlds : fs = w.fs /\ cache_dirs = w.dirs
    /\ config \in {DefaultConfig} \cup LoadedConfigs
    /\ now = 0
    /\ last_clean_time = <<>>
    /\ cache_size_gb = Zero
    /\ is_cleaning = FALSE
    /\ status_message = FixedMsg("Ready")
    /\ pc = "measure"
    /\ caller = "none"
    /\ idx = 1
    /\ cleaned_count = 0
    /\ cleaned_size = Zero
    /\ decision = FALSE
    /\ pass_end = <<>>
    /\ pass_start_fs = fs

\* No directory has been listed, for any root of the list.
NoVisits == [i \in 1..Len(cache_dirs) |-> [p \in Paths |-> 0]]

\* No traversal is in progress step by step.
WalkIdle ==
    /\ stack = <<>>
    /\ total_size = Zero
    /\ visits = NoVisits
    /\ created = {}
    /\ late = {}
    /\ settled = {}
    /\ removed = <<>>

\* Arc::new(Mutex::new(None)), with no thread but the one of the window.
LockIdle ==
    /\ holder = "none"
    /\ tpc = <<>>
    /\ seen = <<>>
    /\ written = {<<>>}

Init == InitIn(InitialWorlds) /\ WalkIdle /\ LockIdle

\* ---------------------------------------------------------------- actions

\* The clock advances: between two update cycles, while clean_cache walks
\* the roots and while it measures again.  (Time that passes at any other
\* point is read by nothing before the next of these points is reached.)
Tick ==
    /\ pc \in {"measure", "clean_dirs", "clean_measure"}
    /\ \E d \in Deltas : now + d <= MaxTime /\ now' = now + d
    /\ UNCHANGED <<fs, config, last_clean_time, cache_size_gb, is_cleaning,
                   status_message, cache_dirs, pc, caller, idx, cleaned_count,
                   cleaned_size, decision, pass_end,
                   pass_start_fs>>
    /\ UNCHANGED <<walkvars, lockvars>>

\* Measure recording the time of the measurement in last_clean_time.
Measure_WritesStamp ==
    /\ pc = "measure"
    /\ cache_size_gb' = get_cache_size(fs, cache_dirs)
    /\ last_clean_time' = <<now>>
    /\ pc' = "policy"
    /\ UNCHANGED <<fs, now, config, is_cleaning,
                   status_message, cache_dirs, caller, idx, cleaned_count,
                   cleaned_size, decision, pass_end,
                   pass_start_fs>>
    /\ UNCHANGED <<walkvars, lockvars>>

\* update: self.cache_size_gb = self.get_cache_size();
Measure ==
    /\ pc = "measure"
    /\ cache_size_gb' = get_cache_size(fs, cache_dirs)
    /\ pc' = "policy"
    /\ UNCHANGED <<fs, now, config, last_clean_time, is_cleaning,
                   status_message, cache_dirs, caller, idx, cleaned_count,
                   cleaned_size, decision, pass_end,
                   pass_start_fs>>
    /\ UNCHANGED <<walkvars, lockvars>>

\* update: if self.should_auto_clean() && !self.is_cleaning { clean_cache() }
Policy ==
    /\ pc = "policy"
    /\ decision' = should_auto_clean
    /\ IF should_auto_clean /\ ~is_cleaning
       THEN pc' = "clean_begin" /\ caller' = "auto"
       ELSE pc' = "ui" /\ caller' = "none"
    /\ UNCHANGED <<fs, now, config, last_clean_time, cache_size_gb,
                   is_cleaning, status_message, cache_dirs, idx,
                   cleaned_count, cleaned_size, pass_end,
                   pass_start_fs>>
    /\ UNCHANGED <<walkvars, lockvars>>

\* CleanBegin clearing the timestamp while the pass runs.
CleanBegin_ClearsStamp ==
    /\ pc = "clean_begin"
    /\ is_cleaning' = TRUE
    /\ status_message' = FixedMsg("Cleaning cache...")
    /\ cleaned_count' = 0
    /\ cleaned_size' = Zero
    /\ idx' = 1
    /\ pc' = "clean_dirs"
    /\ pass_start_fs' = fs
    /\ last_clean_time' = <<>>
    /\ UNCHANGED <<fs, now, config, cache_size_gb,
                   cache_dirs, caller, decision, pass_end>>
    /\ UNCHANGED <<walkvars, lockvars>>

\* clean_cache, up to the loop over the roots.
CleanBegin ==
    /\ pc = "clean_begin"
    /\ is_cleaning' = TRUE
    /\ status_message' = FixedMsg("Cleaning cache...")
    /\ cleaned_count' = 0
    /\ cleaned_size' = Zero
    /\ idx' = 1
    /\ pc' = "clean_dirs"
    /\ pass_start_fs' = fs
    /\ UNCHANGED <<fs, now, config, last_clean_time, cache_size_gb,
                   cache_dirs, caller, decision, pass_end>>
    /\ UNCHANGED <<walkvars, lockvars>>

\* clean_cache: one iteration of the loop over the roots.
CleanRoot ==
    /\ pc = "clean_dirs"
    /\ idx <= Len(cache_dirs)
    /\ LET out == clean_directory(CleanAcc(fs, cleaned_count, cleaned_size),
                                  cache_dirs[idx])
       IN  /\ fs' = out.fs
           /\ cleaned_count' = out.count
           /\ cleaned_size' = out.size
    /\ idx' = idx + 1
    /\ UNCHANGED <<now, config, last_clean_time, cache_size_gb, is_cleaning,
                   status_message, cache_dirs, pc, caller, decision, pass_end,
                   pass_start_fs>>
    /\ UNCHANGED <<walkvars, lockvars>>

\* CleanStamp writing the timestamp only when something was deleted.
CleanStamp_OnlyWhenDeleted ==
    /\ pc = "clean_dirs"
    /\ idx > Len(cache_dirs)
    /\ status_message' = Msg("Cleaned", cleaned_count, ToGB(cleaned_size))
    /\ last_clean_time' = IF cleaned_count > 0 THEN <<now>> ELSE last_clean_time
    /\ is_cleaning' = FALSE
    /\ pc' = "clean_measure"
    /\ UNCHANGED <<fs, now, config, cache_size_gb, cache_dirs, caller, idx,
                   cleaned_count, cleaned_size, decision, pass_end,
                   pass_start_fs>>
    /\ UNCHANGED <<walkvars, lockvars>>

\* CleanStamp leaving is_cleaning set.
CleanStamp_KeepsFlag ==
    /\ pc = "clean_dirs"
    /\ idx > Len(cache_dirs)
    /\ status_message' = Msg("Cleaned", cleaned_count, ToGB(cleaned_size))
    /\ last_clean_time' = <<now>>
    /\ pc' = "clean_measure"
    /\ UNCHANGED <<fs, now, config, cache_size_gb, cache_dirs, caller, idx,
                   cleaned_count, cleaned_size, decision, pass_end,
                   pass_start_fs, is_cleaning>>
    /\ UNCHANGED <<walkvars, lockvars>>

\* clean_cache: after the loop, the message, the timestamp and the flag.
CleanStamp ==
    /\ pc = "clean_dirs"
    /\ idx > Len(cache_dirs)
    /\ status_message' = Msg("Cleaned", cleaned_count, ToGB(cleaned_size))
    /\ last_clean_time' = <<now>>
    /\ is_cleaning' = FALSE
    /\ pc' = "clean_measure"
    /\ UNCHANGED <<fs, now, config, cache_size_gb, cache_dirs, caller, idx,
                   cleaned_count, cleaned_size, decision, pass_end,
                   pass_start_fs>>
    /\ UNCHANGED <<walkvars, lockvars>>

\* CleanMeasure returning without measuring again.
CleanMeasure_NoRemeasure ==
    /\ pc = "clean_measure"
    /\ pass_end' = <<now>>
    /\ pc' = IF caller = "auto" THEN "ui" ELSE "measure"
    /\ caller' = "none"
    /\ idx' = 1
    /\ cleaned_count' = 0
    /\ cleaned_size' = Zero
    /\ pass_start_fs' = fs
    /\ UNCHANGED <<fs, now, config, last_clean_time, cache_size_gb,
                   is_cleaning, status_message, cache_dirs, decision>>
    /\ UNCHANGED <<walkvars, lockvars>>

\* clean_cache: self.cache_size_gb = self.get_cache_size(); and return, which
\* ends the scope of the locals.
CleanMeasure ==
    /\ pc = "clean_measure"
    /\ cache_size_gb' = get_cache_size(fs, cache_dirs)
    /\ pass_end' = <<now>>
    /\ pc' = IF caller = "auto" THEN "ui" ELSE "measure"
    /\ caller' = "none"
    /\ idx' = 1
    /\ cleaned_count' = 0
    /\ cleaned_size' = Zero
    /\ pass_start_fs' = fs
    /\ UNCHANGED <<fs, now, config, last_clean_time, is_cleaning,
                   status_message, cache_dirs, decision>>
    /\ UNCHANGED <<walkvars, lockvars>>

\* Ui with a clean button that works only when no cooldown is in force.
Ui_CleanAfterCooldown ==
    /\ pc = "ui"
    /\ \E thr \in {config.cache_threshold_gb} \cup SliderValues,
          en \in BOOLEAN,
          click \in {"none", "save", "clean"} :
          /\ config' = Config(thr, en)
          /\ CASE click = "none" ->
                    /\ pc' = "measure"
                    /\ UNCHANGED <<status_message, caller>>
               [] click = "save" ->
                    /\ pc' = "measure"
                    /\ status_message' \in {FixedMsg("Configuration saved"),
                                           FixedMsg("Error")}
                    /\ UNCHANGED caller
               [] click = "clean" ->
                    /\ IF last_clean_time = <<>> THEN TRUE
                       ELSE Elapsed(last_clean_time[1]) >= Cooldown
                    /\ pc' = "clean_begin"
                    /\ caller' = "manual"
                    /\ UNCHANGED status_message
    /\ UNCHANGED <<fs, now, last_clean_time, cache_size_gb, is_cleaning,
                   cache_dirs, idx, cleaned_count, cleaned_size, decision,
                   pass_end,
                   pass_start_fs>>
    /\ UNCHANGED <<walkvars, lockvars>>

\* update: the panel.  The slider and the checkbox write the configuration,
\* then at most one of the two buttons is clicked.
Ui ==
    /\ pc = "ui"
    /\ \E thr \in {config.cache_threshold_gb} \cup SliderValues,
          en \in BOOLEAN,
          click \in {"none", "save", "clean"} :
          /\ config' = Config(thr, en)
          /\ CASE click = "none" ->
                    /\ pc' = "measure"
                    /\ UNCHANGED <<status_message, caller>>
               [] click = "save" ->
                    /\ pc' = "measure"
                    /\ status_message' \in {FixedMsg("Configuration saved"),
                                           FixedMsg("Error")}
                    /\ UNCHANGED caller
               [] click = "clean" ->
                    /\ pc' = "clean_begin"
                    /\ caller' = "manual"
                    /\ UNCHANGED status_message
    /\ UNCHANGED <<fs, now, last_clean_time, cache_size_gb, is_cleaning,
                   cache_dirs, idx, cleaned_count, cleaned_size, decision,
                   pass_end,
                   pass_start_fs>>
    /\ UNCHANGED <<walkvars, lockvars>>

Next ==
    \/ Tick
    \/ Measure
    \/ Policy
    \/ CleanBegin
    \/ CleanRoot
    \/ CleanStamp
    \/ CleanMeasure
    \/ Ui

Spec == Init /\ [][Next]_vars

\* A step of the program: any step but the passing of time.  The program is
\* sequential, so at most one of these is enabled in a state.
Step ==
    \/ Measure
    \/ Policy
    \/ CleanBegin
    \/ CleanRoot
    \/ CleanStamp
    \/ CleanMeasure
    \/ Ui

\* The update cycle keeps running: eframe calls update again after every
\* request_repaint_after, and every step of update and of clean_cache returns.
\* Nothing is assumed of the clock.
\* Started from two separate roots that can be listed, with a file in r, a
\* file in r/d, each deletable or locked, and a file in s.
LiveWorlds ==
    {w \in InitialWorlds :
        /\ w.dirs = <<R, S>>
        /\ w.fs[S] = Dir
        /\ w.fs[RF].kind = "file"
        /\ w.fs[RDG] \in {File(SizeG), LockedFile(SizeG)}
        /\ w.fs[RDE].kind = "none"}

LiveInit == InitIn(LiveWorlds) /\ WalkIdle /\ LockIdle

LiveSpec == LiveInit /\ [][Next]_vars /\ WF_vars(Step)

\* ------------------------------------------- the mutex of last_clean_time

\* The thread of the window, which runs update, and two threads that hold a
\* clone of the Arc and read the timestamp.
Readers == {"t1", "t2"}

Threads == {"ui"} \cup Readers

\* Where a thread stands: at is the point, ret the point clean_cache returns
\* to (for the thread of the window).
At(at, ret) == [at |-> at, ret |-> ret]

\* The slot while the store of line 217 is half done: the bits of no value
\* that was ever stored.
Torn == <<0 - 1>>

LockInit ==
    /\ InitIn(LiveWorlds)
    /\ WalkIdle
    /\ holder = "none"
    /\ tpc = [t \in Threads |-> IF t = "ui" THEN At("policy", "none")
                                ELSE At("idle", "none")]
    /\ seen = [t \in Threads |-> <<>>]
    /\ written = {<<>>}

\* Mutex::lock by thread t: blocks while another guard exists.
Acquire(t) == holder = "none" /\ holder' = t

\* The MutexGuard of t is dropped.
Release(t) == holder = t /\ holder' = "none"

Goto(t, at, ret) == tpc' = [tpc EXCEPT ![t] = At(at, ret)]

LockFrame == UNCHANGED <<fs, now, config, cache_size_gb, is_cleaning,
                         status_message, cache_dirs, pc, caller, idx,
                         cleaned_count, cleaned_size, decision, pass_end,
                         pass_start_fs, walkvars>>

\* should_auto_clean, line 223: auto-clean is disabled, return false.
UiPolicySkip ==
    /\ tpc["ui"].at = "policy"
    /\ Goto("ui", "auto", "none")
    /\ UNCHANGED <<holder, seen, written, last_clean_time>>
    /\ LockFrame

\* should_auto_clean, line 228: self.last_clean_time.lock().unwrap()
UiPolicyLock ==
    /\ tpc["ui"].at = "policy"
    /\ Acquire("ui")
    /\ Goto("ui", "policy_held", "none")
    /\ UNCHANGED <<seen, written, last_clean_time>>
    /\ LockFrame

\* UiPolicyRead with the guard kept in a binding that outlives the if let.
UiPolicyRead_KeepsGuard ==
    /\ tpc["ui"].at = "policy_held"
    /\ seen' = [seen EXCEPT !["ui"] = last_clean_time]
    /\ Goto("ui", "auto", "none")
    /\ UNCHANGED <<holder, written, last_clean_time>>
    /\ LockFrame

\* should_auto_clean, lines 228-232: the value is copied out through the
\* guard, the body of the if let runs, and the guard, a temporary of the
\* scrutinee, is dropped at the end of the if let (or by the return in it).
UiPolicyRead ==
    /\ tpc["ui"].at = "policy_held"
    /\ seen' = [seen EXCEPT !["ui"] = last_clean_time]
    /\ Release("ui")
    /\ Goto("ui", "auto", "none")
    /\ UNCHANGED <<written, last_clean_time>>
    /\ LockFrame

\* update, lines 245-247: clean_cache is called, or not.
UiAuto ==
    /\ tpc["ui"].at = "auto"
    /\ \/ Goto("ui", "stamp", "manual")
       \/ Goto("ui", "manual", "none")
    /\ UNCHANGED <<holder, seen, written, last_clean_time>>
    /\ LockFrame

\* update, lines 337-345: the clean button is clicked, or not.
UiManual ==
    /\ tpc["ui"].at = "manual"
    /\ \/ Goto("ui", "stamp", "label")
       \/ Goto("ui", "label", "none")
    /\ UNCHANGED <<holder, seen, written, last_clean_time>>
    /\ LockFrame

\* clean_cache, line 217: the right-hand side Some(Instant::now()) is
\* evaluated first.
UiStampNow ==
    /\ tpc["ui"].at = "stamp"
    /\ seen' = [seen EXCEPT !["ui"] = <<now>>]
    /\ Goto("ui", "stamp_lock", tpc["ui"].ret)
    /\ UNCHANGED <<holder, written, last_clean_time>>
    /\ LockFrame

\* clean_cache, line 217: self.last_clean_time.lock().unwrap()
UiStampLock ==
    /\ tpc["ui"].at = "stamp_lock"
    /\ Acquire("ui")
    /\ Goto("ui", "stamp_held", tpc["ui"].ret)
    /\ UNCHANGED <<seen, written, last_clean_time>>
    /\ LockFrame

\* clean_cache, line 217: the store through the guard begins; an
\* Option<Instant> is wider than one machine word.
UiStampStore ==
    /\ tpc["ui"].at = "stamp_held"
    /\ last_clean_time' = Torn
    /\ Goto("ui", "stamp_half", tpc["ui"].ret)
    /\ UNCHANGED <<holder, seen, written>>
    /\ LockFrame

\* clean_cache, line 217: the store is complete and the guard is dropped at
\* the end of the statement.
UiStampDone ==
    /\ tpc["ui"].at = "stamp_half"
    /\ last_clean_time' = seen["ui"]
    /\ written' = written \cup {seen["ui"]}
    /\ Release("ui")
    /\ Goto("ui", tpc["ui"].ret, "none")
    /\ UNCHANGED seen
    /\ LockFrame

\* update, line 357: self.last_clean_time.lock().unwrap()
UiLabelLock ==
    /\ tpc["ui"].at = "label"
    /\ Acquire("ui")
    /\ Goto("ui", "label_held", "none")
    /\ UNCHANGED <<seen, written, last_clean_time>>
    /\ LockFrame

\* update, lines 357-364: the value is copied out, the label is drawn, the
\* guard is dropped at the end of the if let; update returns.
UiLabelRead ==
    /\ tpc["ui"].at = "label_held"
    /\ seen' = [seen EXCEPT !["ui"] = last_clean_time]
    /\ Release("ui")
    /\ Goto("ui", "policy", "none")
    /\ UNCHANGED <<written, last_clean_time>>
    /\ LockFrame

\* Another thread: lock().unwrap() on its clone of the Arc.
ReaderLock(t) ==
    /\ tpc[t].at = "idle"
    /\ Acquire(t)
    /\ Goto(t, "held", "none")
    /\ UNCHANGED <<seen, written, last_clean_time>>
    /\ LockFrame

\* Another thread: the value is copied out through the guard, and the guard
\* is dropped.
ReaderRead(t) ==
    /\ tpc[t].at = "held"
    /\ seen' = [seen EXCEPT ![t] = last_clean_time]
    /\ Release(t)
    /\ Goto(t, "idle", "none")
    /\ UNCHANGED <<written, last_clean_time>>
    /\ LockFrame

ReaderStep == \E t \in Readers : ReaderLock(t) \/ ReaderRead(t)

\* A step of some thread.
LockStep ==
    \/ UiPolicySkip
    \/ UiPolicyLock
    \/ UiPolicyRead
    \/ UiAuto
    \/ UiManual
    \/ UiStampNow
    \/ UiStampLock
    \/ UiStampStore
    \/ UiStampDone
    \/ UiLabelLock
    \/ UiLabelRead
    \/ ReaderStep

LockNext == LockStep \/ Tick

LockSpec == LockInit /\ [][LockNext]_vars

\* ------------------------------------------- the traversals, step by step

\* get_cache_size and then clean_cache, one read_dir, one directory entry
\* and one return at a time, while another process creates files in the
\* directories of the cache.

\* The files the other process creates during one pass, at most.
MaxCreates == 1

\* The length of a file the other process creates.
SizeNew == Bytes(0, 7)

\* The trees a walk starts from: all of them.
WalkWorlds == InitialWorlds

\* A call of calculate_dir_size or clean_directory in progress: its path,
\* the entries its ReadDir iterator has not yielded yet, and whether the
\* iterator is still in use (the for loop has not ended).
Frame(p, todo, open) == [path |-> p, todo |-> todo, open |-> open]

Top == stack[Len(stack)]

Pop == SubSeq(stack, 1, Len(stack) - 1)

ReplaceTop(fr) == [stack EXCEPT ![Len(stack)] = fr]

\* The traversal runs: get_cache_size, or the loop of clean_cache.
Walking == pc \in {"measure", "clean_dirs"}

\* metadata.is_dir() following the symbolic links, as fs::metadata does.
IsDirMeta_FollowsLinks(f, e) == f[e].kind \in {"dir", "other"}

\* metadata.is_dir() of DirEntry::metadata, which does not follow links.
IsDirMeta(f, e) == f[e].kind = "dir"

\* read_dir was called on directory d during the running phase.
ListedInPass(d) == \E i \in 1..Len(cache_dirs) : visits[i][d] > 0

\* A call on directory d has its iterator in use.
IterOpen(d) == \E k \in 1..Len(stack) : stack[k].path = d /\ stack[k].open

\* Directory d is a root still to be walked, or lies below the root being
\* walked or one still to be walked, and has not been listed for that root.
ListedAgain(d) ==
    \E j \in idx..Len(cache_dirs) :
        /\ d = cache_dirs[j] \/ IsUnder(cache_dirs[j], d)
        /\ visits[j][d] = 0

WalkInit == InitIn(WalkWorlds) /\ WalkIdle /\ LockIdle

\* What no step of a traversal touches.
WalkFrame == UNCHANGED <<now, config, cache_dirs, caller, decision, pass_end,
                         lockvars>>

\* The loop over the roots calls calculate_dir_size or clean_directory on
\* the next root: read_dir of the root.  Where read_dir fails the call
\* returns at once.
WalkRoot ==
    /\ Walking
    /\ stack = <<>>
    /\ idx <= Len(cache_dirs)
    /\ IF ReadDirOk(fs, cache_dirs[idx])
       THEN /\ stack' = <<Frame(cache_dirs[idx],
                                Listing(fs, cache_dirs[idx]), TRUE)>>
            /\ visits' = [visits EXCEPT ![idx][cache_dirs[idx]] = @ + 1]
            /\ idx' = idx
       ELSE /\ idx' = idx + 1
            /\ UNCHANGED <<stack, visits>>
    /\ UNCHANGED <<fs, pc, last_clean_time, cache_size_gb, is_cleaning,
                   status_message, cleaned_count, cleaned_size, pass_start_fs,
                   total_size, created, late, settled, removed>>
    /\ WalkFrame

\* One iteration of the for loop of the innermost call: the iterator yields
\* an entry.  A file is added up or removed, a directory is entered (where
\* its read_dir fails, clean_directory returns at once and remove_dir is
\* tried), anything else is passed over.
WalkEntry ==
    /\ Walking
    /\ stack # <<>>
    /\ Top.open
    /\ \E e \in Top.todo :
        LET rest == Frame(Top.path, Top.todo \ {e}, TRUE)
            skip == /\ stack' = ReplaceTop(rest)
                    /\ UNCHANGED <<fs, total_size, cleaned_count,
                                   cleaned_size, visits, removed>>
        IN  IF ~fs[e].meta_ok THEN skip
            ELSE IF fs[e].kind = "file"
            THEN IF pc = "measure"
                 THEN /\ total_size' = AddBytes(total_size, fs[e].size)
                      /\ stack' = ReplaceTop(rest)
                      /\ UNCHANGED <<fs, cleaned_count, cleaned_size, visits,
                                     removed>>
                 ELSE IF RemoveFileOk(fs, e)
                 THEN /\ fs' = Unlink(fs, e)
                      /\ cleaned_count' = AddCount(cleaned_count)
                      /\ cleaned_size' = AddBytes(cleaned_size, fs[e].size)
                      /\ removed' = Append(removed, e)
                      /\ stack' = ReplaceTop(rest)
                      /\ UNCHANGED <<total_size, visits>>
                 ELSE skip
            ELSE IF IsDirMeta(fs, e)
            THEN IF fs[e].list_ok
                 THEN /\ stack' = Append(ReplaceTop(rest),
                                         Frame(e, Listing(fs, e), TRUE))
                      /\ visits' = [visits EXCEPT ![idx][e] = @ + 1]
                      /\ UNCHANGED <<fs, total_size, cleaned_count,
                                     cleaned_size, removed>>
                 ELSE /\ stack' = ReplaceTop(rest)
                      /\ fs' = IF pc = "clean_dirs" /\ RemoveDirOk(fs, e)
                               THEN Unlink(fs, e) ELSE fs
                      /\ UNCHANGED <<total_size, cleaned_count, cleaned_size,
                                     visits, removed>>
            ELSE skip
    /\ UNCHANGED <<pc, idx, last_clean_time, cache_size_gb, is_cleaning,
                   status_message, pass_start_fs, created, late, settled>>
    /\ WalkFrame

\* The iterator of the innermost call yields None: the for loop ends.
WalkExhaust ==
    /\ Walking
    /\ stack # <<>>
    /\ Top.open
    /\ Top.todo = {}
    /\ stack' = ReplaceTop(Frame(Top.path, {}, FALSE))
    /\ UNCHANGED <<fs, pc, idx, last_clean_time, cache_size_gb, is_cleaning,
                   status_message, cleaned_count, cleaned_size, pass_start_fs,
                   total_size, visits, created, late, settled, removed>>
    /\ WalkFrame

\* WalkReturn removing the directory with all that is in it, as
\* remove_dir_all does.
WalkReturn_RemoveAll ==
    /\ Walking
    /\ stack # <<>>
    /\ ~Top.open
    /\ stack' = Pop
    /\ IF Len(stack) = 1
       THEN idx' = idx + 1 /\ fs' = fs
       ELSE /\ idx' = idx
            /\ fs' = IF pc = "clean_dirs" /\ ~fs[Top.path].locked
                     THEN [p \in Paths |->
                              IF p = Top.path \/ IsUnder(Top.path, p)
                              THEN NoEntry ELSE fs[p]]
                     ELSE fs
    /\ UNCHANGED <<pc, last_clean_time, cache_size_gb, is_cleaning,
                   status_message, cleaned_count, cleaned_size, pass_start_fs,
                   total_size, visits, created, late, settled, removed>>
    /\ WalkFrame

\* The innermost call returns.  The call on a root returns to the loop over
\* the roots; the call on a subdirectory returns to the loop that made it,
\* where clean_directory then tries remove_dir on the subdirectory.  (The
\* sizes are added up in total_size as they are met: the sums the calls of
\* calculate_dir_size return add up to the same number.)
WalkReturn ==
    /\ Walking
    /\ stack # <<>>
    /\ ~Top.open
    /\ stack' = Pop
    /\ IF Len(stack) = 1
       THEN idx' = idx + 1 /\ fs' = fs
       ELSE /\ idx' = idx
            /\ fs' = IF pc = "clean_dirs" /\ RemoveDirOk(fs, Top.path)
                     THEN Unlink(fs, Top.path) ELSE fs
    /\ UNCHANGED <<pc, last_clean_time, cache_size_gb, is_cleaning,
                   status_message, cleaned_count, cleaned_size, pass_start_fs,
                   total_size, visits, created, late, settled, removed>>
    /\ WalkFrame

\* get_cache_size returns the sum as GB, and clean_cache begins: the flag,
\* the message and the two counters.
WalkMeasured ==
    /\ pc = "measure"
    /\ stack = <<>>
    /\ idx > Len(cache_dirs)
    /\ cache_size_gb' = ToGB(total_size)
    /\ is_cleaning' = TRUE
    /\ status_message' = FixedMsg("Cleaning")
    /\ cleaned_count' = 0
    /\ cleaned_size' = Zero
    /\ pass_start_fs' = fs
    /\ visits' = NoVisits
    /\ idx' = 1
    /\ pc' = "clean_dirs"
    /\ UNCHANGED <<fs, last_clean_time, stack, total_size, created, late,
                   settled, removed>>
    /\ WalkFrame

\* clean_cache after the loop over the roots: the message, the timestamp
\* and the flag.
WalkCleaned ==
    /\ pc = "clean_dirs"
    /\ stack = <<>>
    /\ idx > Len(cache_dirs)
    /\ status_message' = Msg("Cleaned", cleaned_count, ToGB(cleaned_size))
    /\ last_clean_time' = <<now>>
    /\ is_cleaning' = FALSE
    /\ pc' = "done"
    /\ UNCHANGED <<fs, cache_size_gb, idx, cleaned_count, cleaned_size,
                   pass_start_fs, stack, total_size, visits, created, late,
                   settled, removed>>
    /\ WalkFrame

\* Another process creates a file in a directory of the cache while the
\* pass runs.  A ReadDir iterator in use on that directory may or may not
\* yield the new entry later.
Create ==
    /\ pc = "clean_dirs"
    /\ Cardinality(created) < MaxCreates
    /\ \E p \in Paths \ created :
        /\ Len(p) > 1
        /\ fs[p].kind = "none"
        /\ fs[Parent(p)].kind = "dir"
        /\ fs' = [fs EXCEPT ![p] = File(SizeNew)]
        /\ created' = created \cup {p}
        /\ late' = IF ListedInPass(Parent(p)) THEN late \cup {p} ELSE late
        /\ settled' = IF /\ ListedInPass(Parent(p))
                         /\ ~IterOpen(Parent(p))
                         /\ ~ListedAgain(Parent(p))
                      THEN settled \cup {p} ELSE settled
        /\ \/ stack' = stack
           \/ /\ IterOpen(Parent(p))
              /\ stack' = [k \in 1..Len(stack) |->
                              IF stack[k].path = Parent(p)
                              THEN Frame(stack[k].path,
                                         stack[k].todo \cup {p}, TRUE)
                              ELSE stack[k]]
    /\ UNCHANGED <<pc, idx, last_clean_time, cache_size_gb, is_cleaning,
                   status_message, cleaned_count, cleaned_size, pass_start_fs,
                   total_size, visits, removed>>
    /\ WalkFrame

\* A step of the program.
WalkStep ==
    \/ WalkRoot
    \/ WalkEntry
    \/ WalkExhaust
    \/ WalkReturn
    \/ WalkMeasured
    \/ WalkCleaned

WalkNext == WalkStep \/ Create

WalkSpec == WalkInit /\ [][WalkNext]_vars

\* The program is scheduled as long as it has a step to take.
WalkLiveSpec == WalkInit /\ [][WalkNext]_vars /\ WF_vars(WalkStep)

\* ----------------------------------------------------------------- claims

\* The step of update that evaluates should_auto_clean.
PolicyStep == pc = "policy" /\ pc' # "policy"

\* A clean has occurred and fewer than 30 seconds have passed since its
\* timestamp.
InCooldown ==
    last_clean_time # <<>> /\ now - last_clean_time[1] < Cooldown

\* x < y on f32 values, written out.
GbBelow(x, y) == x.g < y.g \/ (x.g = y.g /\ x.b < y.b)

\* C1: whenever a clean has occurred and less than 30 seconds have elapsed
\* since its timestamp, should_auto_clean returns false, whatever the size,
\* the threshold and the flag are, and no automatic clean is started; and
\* with the flag set, threshold 1.0, size 5.0 and the last clean 31 seconds
\* ago it returns true.
C1_CooldownEnforced ==
    [][PolicyStep =>
         /\ InCooldown => (decision' = FALSE /\ pc' # "clean_begin")
         /\ ( /\ config = Config(Bytes(1, 0), TRUE)
              /\ cache_size_gb = Bytes(5, 0)
              /\ last_clean_time # <<>>
              /\ now - last_clean_time[1] = 31 ) => decision' = TRUE]_vars

\* C1 witness: should_auto_clean has just returned false with the flag set,
\* threshold 1.0, size 5.0 and the last clean 10 seconds ago.
C1_Witness ==
    /\ pc = "ui"
    /\ decision = FALSE
    /\ config = Config(Bytes(1, 0), TRUE)
    /\ cache_size_gb = Bytes(5, 0)
    /\ last_clean_time # <<>>
    /\ now - last_clean_time[1] = 10

C3_DisabledPolicy ==
    /\ [][(PolicyStep /\ ~config.auto_clean_enabled) =>
            (decision' = FALSE /\ pc' # "clean_begin")]_vars
    /\ [](caller = "auto" => config.auto_clean_enabled)

\* C3 witness: should_auto_clean has just returned false with the flag
\* cleared although the size is over the threshold and the cooldown is over.
C3_Witness ==
    /\ pc = "ui"
    /\ decision = FALSE
    /\ ~config.auto_clean_enabled
    /\ GbBelow(config.cache_threshold_gb, cache_size_gb)
    /\ last_clean_time # <<>>
    /\ now - last_clean_time[1] >= Cooldown

\* The step of clean_cache that follows the loop over the roots.
StampStep == pc = "clean_dirs" /\ pc' = "clean_measure"

\* An automatic clean pass is starting.
AutoCleanStarts == pc = "clean_begin" /\ caller = "auto"

\* C4, as amended: every clean pass that completes its loop sets the
\* timestamp to the current time, also when it deleted no file and reclaimed
\* no byte, and no automatic clean starts less than 30 seconds after the
\* timestamp a previous pass wrote.
C4_StampAlwaysWritten ==
    /\ [][StampStep => last_clean_time' = <<now>>]_vars
    /\ [](AutoCleanStarts =>
            (last_clean_time = <<>> \/ now - last_clean_time[1] >= Cooldown))

\* C4 witness: an automatic clean starts again, 30 seconds after the
\* timestamp of a pass that deleted nothing.
C4_Witness ==
    /\ AutoCleanStarts
    /\ status_message = Msg("Cleaned", 0, Zero)
    /\ last_clean_time # <<>>
    /\ now - last_clean_time[1] = Cooldown

\* C4 as stated: no automatic clean starts less than 30 seconds after the
\* end of a previous clean pass (the return of clean_cache).
C4_ThirtySecondsAfterPassEnd ==
    (AutoCleanStarts /\ pass_end # <<>>) => now - pass_end[1] >= Cooldown

\* C5 as stated: once a clean pass has run, every cache root of the list is
\* still a directory.
C5_RootsPreserved ==
    pass_end # <<>> =>
        \A i \in 1..Len(cache_dirs) : fs[cache_dirs[i]].kind = "dir"

\* The directories from root down to the one that holds p.
Enclosing(root, p) == {SubSeq(p, 1, k) : k \in Len(root)..(Len(p) - 1)}

\* A traversal that starts at root comes to the entry p and can read its
\* metadata: every directory on the way can be listed, and the metadata of
\* every entry on the way can be read.
Visible(f, root, p) ==
    /\ IsUnder(root, p)
    /\ f[p].kind # "none"
    /\ f[p].meta_ok
    /\ \A a \in Enclosing(root, p) :
          ReadDirOk(f, a) /\ (a # root => f[a].meta_ok)

\* p is a regular file that a traversal from some root of the list comes to
\* and that remove_file can delete.
Deletable(f, p) ==
    /\ f[p].kind = "file"
    /\ ~f[p].locked
    /\ \E i \in 1..Len(cache_dirs) : Visible(f, cache_dirs[i], p)

RECURSIVE SumSizes(_, _)
\* The sizes of the files ps of f, added up.
SumSizes(f, ps) ==
    IF ps = {} THEN Zero
    ELSE LET p == CHOOSE x \in ps : TRUE
         IN  AddBytes(f[p].size, SumSizes(f, ps \ {p}))

\* The files that the running pass has removed.
DeletedFiles == {p \in Paths : pass_start_fs[p].kind = "file" /\ fs[p].kind = "none"}

\* The loop of clean_cache over the roots has finished.
LoopDone ==
    \/ pc = "clean_dirs" /\ idx > Len(cache_dirs)
    \/ pc = "clean_measure"

\* C6: when the loop over the roots has finished, every file that was
\* deletable when the pass began (not locked, and reached by the traversal
\* from some root) is gone, every other file is still in place unchanged,
\* and the tally counts exactly the files removed and their sizes; the
\* message reports that tally.
C6_PartialFailureTolerated ==
    LoopDone =>
        /\ \A p \in Paths : Deletable(pass_start_fs, p) => fs[p].kind = "none"
        /\ \A p \in Paths :
              (pass_start_fs[p].kind = "file" /\ ~Deletable(pass_start_fs, p))
                  => fs[p] = pass_start_fs[p]
        /\ cleaned_count = Cardinality(DeletedFiles)
        /\ cleaned_size = SumSizes(pass_start_fs, DeletedFiles)
        /\ pc = "clean_measure" =>
              status_message = Msg("Cleaned", cleaned_count, ToGB(cleaned_size))

\* C6 witness: a pass over two roots met a locked file directly in the first
\* root, left it in place, and deleted the three other files: one and two
\* directories further down, and one in the root processed afterwards.
C6_Witness ==
    /\ LoopDone
    /\ cache_dirs = <<R, S>>
    /\ pass_start_fs[RF] = LockedFile(SizeF)
    /\ fs[RF] = LockedFile(SizeF)
    /\ pass_start_fs[RDG] = File(SizeG) /\ fs[RDG].kind = "none"
    /\ pass_start_fs[RDEH] = File(SizeH) /\ fs[RDEH].kind = "none"
    /\ pass_start_fs[SK] = File(SizeK) /\ fs[SK].kind = "none"
    /\ cleaned_count = 3
    /\ cleaned_size = AddBytes(SizeG, AddBytes(SizeH, SizeK))

\* A clean pass is running, or measuring again, after an earlier pass has
\* returned.
LaterPass == pc \in {"clean_dirs", "clean_measure"} /\ pass_end # <<>>

\* C7: a clean pass that follows another one changes nothing in the
\* filesystem and counts no file and no byte, and reports that.
C7_CleanIdempotent ==
    LaterPass =>
        /\ fs = pass_start_fs
        /\ cleaned_count = 0
        /\ cleaned_size = Zero
        /\ pc = "clean_measure" => status_message = Msg("Cleaned", 0, Zero)

\* C7 witness: a second pass has finished its loop over a tree in which a
\* locked file and the directory around it remain, with zero counts.
C7_Witness ==
    /\ pc = "clean_measure"
    /\ pass_end # <<>>
    /\ fs[RDEH] = LockedFile(SizeH)
    /\ fs[RF].kind = "none"
    /\ status_message = Msg("Cleaned", 0, Zero)

\* The regular files directly in p whose metadata can be read.
DirectFiles(f, p) == {q \in Children(p) : f[q].kind = "file" /\ f[q].meta_ok}

\* The immediate subdirectories of p whose metadata can be read.
Subdirs(f, p) == {q \in Children(p) : f[q].kind = "dir" /\ f[q].meta_ok}

RECURSIVE SumMeasured(_, _)
\* The measured sizes of the directories ds, added up.
SumMeasured(f, ds) ==
    IF ds = {} THEN Zero
    ELSE LET d == CHOOSE x \in ds : TRUE
         IN  AddBytes(calculate_dir_size(f, d), SumMeasured(f, ds \ {d}))

\* C8: in every filesystem the program comes to, the measured size of a
\* directory that can be listed is the sum of the sizes of the regular files
\* directly in it and of the measured sizes of its immediate subdirectories,
\* where an entry whose metadata cannot be read adds nothing; a directory
\* that cannot be listed measures 0.
C8_MeasureAdditive ==
    \A p \in Paths :
        fs[p].kind = "dir" =>
            calculate_dir_size(fs, p) =
                IF ReadDirOk(fs, p)
                THEN AddBytes(SumSizes(fs, DirectFiles(fs, p)),
                              SumMeasured(fs, Subdirs(fs, p)))
                ELSE Zero

\* C8 witness: the update cycle has measured a tree three levels deep with a
\* file in the root and one two directories down, and a file whose metadata
\* cannot be read in between; the stored size is that of the two readable
\* files.
C8_Witness ==
    /\ pc = "policy"
    /\ cache_dirs = <<R, S>>
    /\ ~ReadDirOk(fs, S)
    /\ fs[RF] = File(SizeF)
    /\ fs[RDG] = NoMetaFile(SizeG)
    /\ fs[RDEH] = File(SizeH)
    /\ cache_size_gb = ToGB(AddBytes(SizeF, SizeH))

\* The files a traversal from root reaches, with readable metadata.
VisibleFiles(f, root) == {p \in Paths : Visible(f, root, p) /\ f[p].kind = "file"}

RECURSIVE SumReadableRoots(_, _, _)
\* The sizes of the files reached from each root that can be listed, added
\* up over the list dirs from index i on.
SumReadableRoots(f, dirs, i) ==
    IF i > Len(dirs) THEN Zero
    ELSE AddBytes(IF ReadDirOk(f, dirs[i])
                  THEN SumSizes(f, VisibleFiles(f, dirs[i]))
                  ELSE Zero,
                  SumReadableRoots(f, dirs, i + 1))

\* C9: a root that does not exist or cannot be listed measures 0, and the
\* size the update cycle has just stored is the sum, converted to GB, of the
\* files reached from the roots that can be listed.
C9_MissingRootMeasuresZero ==
    /\ \A i \in 1..Len(cache_dirs) :
          ~ReadDirOk(fs, cache_dirs[i]) =>
              calculate_dir_size(fs, cache_dirs[i]) = Zero
    /\ pc = "policy" =>
          cache_size_gb = ToGB(SumReadableRoots(fs, cache_dirs, 1))

\* C9 witness: the update cycle has measured a list of roots of which the
\* second no longer exists, and stored the size of the file left in the first.
C9_Witness ==
    /\ pc = "policy"
    /\ cache_dirs = <<R, RD>>
    /\ fs[RD].kind = "none"
    /\ fs[RF] = LockedFile(SizeF)
    /\ cache_size_gb = Bytes(1, 0)

\* The roots before index i of the list.
RootsBefore(i) == {cache_dirs[j] : j \in 1..(i - 1)}

\* C10: inside clean_cache the roots are cleaned in list order (when the
\* loop stands at index i, the roots before i are clean and nothing outside
\* them has been touched), the loop is left only after the last root, the
\* timestamp is written only then, with the filesystem and the stored size
\* untouched by that step, and the size stored on return is the size of the
\* files then present; the deletions come first, the timestamp second, the
\* measurement third.
C10_CleanOrder ==
    /\ [](pc = "clean_dirs" =>
            /\ \A p \in Paths :
                  ( /\ pass_start_fs[p].kind = "file"
                    /\ ~pass_start_fs[p].locked
                    /\ \E r \in RootsBefore(idx) : Visible(pass_start_fs, r, p) )
                      => fs[p].kind = "none"
            /\ \A p \in Paths :
                  (\A r \in RootsBefore(idx) : ~IsUnder(r, p))
                      => fs[p] = pass_start_fs[p])
    /\ [][(pc = "clean_dirs" /\ pc' # "clean_dirs") =>
            (idx > Len(cache_dirs) /\ pc' = "clean_measure")]_vars
    /\ [][last_clean_time' # last_clean_time =>
            /\ pc = "clean_dirs" /\ idx > Len(cache_dirs)
            /\ last_clean_time' = <<now>>
            /\ fs' = fs
            /\ cache_size_gb' = cache_size_gb]_vars
    /\ [][(pc = "clean_measure" /\ pc' # "clean_measure") =>
            /\ fs' = fs
            /\ last_clean_time' = last_clean_time
            /\ cache_size_gb' = ToGB(SumReadableRoots(fs, cache_dirs, 1))]_vars

\* C10 witness: an automatic clean pass, started with the size at or over a
\* threshold of at least 1 GB, has returned within the same update cycle and
\* the stored size is 0; the timestamp was written while the pass ran.
C10_Witness ==
    /\ pc = "ui"
    /\ decision = TRUE
    /\ cache_dirs = <<R, S>>
    /\ cache_size_gb = Zero
    /\ last_clean_time # <<>>
    /\ pass_end # <<>>
    /\ last_clean_time[1] < pass_end[1]

\* C11: the timestamp is absent from construction until the first clean
\* pass has finished its loop over the roots and writes it; every pass writes
\* it again, to the time of that moment; once present it is never absent
\* again and never moves backwards; and no step other than that step of
\* clean_cache changes it (not the measurement, not should_auto_clean, not
\* the panel with its configuration changes).
C11_StampLifecycle ==
    /\ []((pass_end = <<>> /\ pc # "clean_measure") => last_clean_time = <<>>)
    /\ []((pass_end # <<>> \/ pc = "clean_measure") => last_clean_time # <<>>)
    /\ [][StampStep => last_clean_time' = <<now>>]_vars
    /\ [][last_clean_time # <<>> =>
            /\ last_clean_time' # <<>>
            /\ last_clean_time'[1] >= last_clean_time[1]]_vars
    /\ [][last_clean_time' # last_clean_time => StampStep]_vars

\* C11 witness: a later pass has overwritten the timestamp of an earlier one
\* with a later time.
C11_Witness ==
    /\ pc = "clean_measure"
    /\ pass_end # <<>>
    /\ last_clean_time # <<>>
    /\ last_clean_time[1] > pass_end[1]

\* A step that measures: the one of update, or the one at the end of
\* clean_cache.
MeasureStep ==
    \/ pc = "measure" /\ pc' = "policy"
    \/ pc = "clean_measure" /\ pc' # "clean_measure"

\* C12: a measurement changes no file, no directory and not the timestamp,
\* and the value it stores is the size of the files present at that moment:
\* the same as before when the filesystem is the same, the new size when
\* files have gone; the stored size changes in no other step.
C12_MeasureReadOnlyUncached ==
    /\ [][MeasureStep =>
            /\ fs' = fs
            /\ last_clean_time' = last_clean_time
            /\ cache_size_gb' = ToGB(SumReadableRoots(fs, cache_dirs, 1))]_vars
    /\ [][cache_size_gb' # cache_size_gb => MeasureStep]_vars
    /\ [][(MeasureStep /\ cache_size_gb = ToGB(SumReadableRoots(fs, cache_dirs, 1)))
            => cache_size_gb' = cache_size_gb]_vars

\* C12 witness: an update cycle that follows a pass which deleted files has
\* measured again and stored the size of the one locked file that is left.
C12_Witness ==
    /\ pc = "policy"
    /\ pass_end # <<>>
    /\ status_message.kind = "Cleaned"
    /\ status_message.files > 0
    /\ fs[RF] = LockedFile(SizeF)
    /\ \A p \in Paths \ {RF} : fs[p].kind # "file"
    /\ cache_size_gb = Bytes(1, 0)

\* No root of the list lies below another one, and none is listed twice.
NonNested ==
    \A i, j \in 1..Len(cache_dirs) :
        i # j => (cache_dirs[i] # cache_dirs[j]
                  /\ ~IsUnder(cache_dirs[i], cache_dirs[j]))

\* C13: the loop over the roots begins with a tally of zero in every pass;
\* while it runs, the one tally counts the files removed so far in this pass
\* under all roots and adds up the sizes they had before deletion; and when
\* no root lies below another, the bytes of the tally are the bytes measured
\* before the pass less the bytes measured after it.
C13_CleanTally ==
    /\ (pc = "clean_dirs" /\ idx = 1) =>
          (cleaned_count = 0 /\ cleaned_size = Zero)
    /\ (pc = "clean_dirs" \/ pc = "clean_measure") =>
          /\ cleaned_count = Cardinality(DeletedFiles)
          /\ cleaned_size = SumSizes(pass_start_fs, DeletedFiles)
    /\ (LoopDone /\ NonNested) =>
          SumRoots(pass_start_fs, cache_dirs, 1)
              = AddBytes(SumRoots(fs, cache_dirs, 1), cleaned_size)

\* C13 witness: a pass over two separate roots has removed four files, three
\* under the first root and one under the second, and its tally holds the
\* four and the sum of their sizes.
C13_Witness ==
    /\ LoopDone
    /\ cache_dirs = <<R, S>>
    /\ DeletedFiles = {RF, RDG, RDEH, SK}
    /\ cleaned_count = 4
    /\ cleaned_size = AddBytes(AddBytes(SizeF, SizeG), AddBytes(SizeH, SizeK))
    /\ SumRoots(fs, cache_dirs, 1) = Zero

\* The roots of the list from which a traversal reaches the file p.
RootsOver(f, p) == {i \in 1..Len(cache_dirs) : Visible(f, cache_dirs[i], p)}

RECURSIVE Times(_, _)
\* k times the byte count x.
Times(k, x) == IF k = 0 THEN Zero ELSE AddBytes(x, Times(k - 1, x))

RECURSIVE SumCounted(_, _)
\* The sizes of the files ps, each counted once for every root over it.
SumCounted(f, ps) ==
    IF ps = {} THEN Zero
    ELSE LET p == CHOOSE x \in ps : TRUE
         IN  AddBytes(Times(Cardinality(RootsOver(f, p)), f[p].size),
                      SumCounted(f, ps \ {p}))

AllFiles(f) == {p \in Paths : f[p].kind = "file"}

\* C15: the total the measurement adds up counts every file once for each
\* listed root a traversal reaches it from (twice when it lies under a root
\* and under a root nested in that one), and the size stored by the update
\* cycle is that total in GB; a clean pass removes each file once and its
\* tally holds each removed file once.
C15_NestedRootsCounted ==
    /\ SumRoots(fs, cache_dirs, 1) = SumCounted(fs, AllFiles(fs))
    /\ pc = "policy" => cache_size_gb = ToGB(SumCounted(fs, AllFiles(fs)))
    /\ LoopDone =>
          /\ cleaned_count = Cardinality(DeletedFiles)
          /\ cleaned_size = SumSizes(pass_start_fs, DeletedFiles)
          /\ \A p \in DeletedFiles : RootsOver(pass_start_fs, p) # {}

\* C15 witness: with the roots r and r/d, a 1 GB file in r and a 4 GB file
\* in r/d were measured as 9 GB, and the pass that followed removed both and
\* tallied 2 files and 5 GB.
C15_Witness ==
    /\ LoopDone
    /\ cache_dirs = <<R, RD>>
    /\ AllFiles(pass_start_fs) = {RF, RDG}
    /\ pass_start_fs[RF] = File(SizeF)
    /\ pass_start_fs[RDG] = File(SizeG)
    /\ cache_size_gb = Bytes(9, 0)
    /\ cleaned_count = 2
    /\ cleaned_size = Bytes(5, 0)

RECURSIVE Stuck(_, _)
\* The cleaner cannot remove the entry p: a file that is locked or whose
\* metadata cannot be read, an entry that is neither file nor directory, a
\* directory that holds such an entry at any depth, or a directory that
\* cannot be listed and is not empty.
Stuck(f, p) ==
    CASE f[p].kind = "file"  -> f[p].locked \/ ~f[p].meta_ok
      [] f[p].kind = "other" -> TRUE
      [] f[p].kind = "dir"   ->
            \/ f[p].locked
            \/ ~f[p].meta_ok
            \/ IF f[p].list_ok
               THEN \E q \in Listing(f, p) : Stuck(f, q)
               ELSE Listing(f, p) # {}
      [] OTHER -> FALSE

\* C16: a directory disappears only in a step after which nothing is left
\* in it; and when the loop over the roots has finished, an entry below a
\* root that the traversal reached is gone if and only if it was not stuck
\* (a deletable file, or a subdirectory whose whole subtree held deletable
\* files only), while every other entry is in place unchanged.
C16_PostOrderRemoval ==
    /\ [][\A p \in Paths :
            (fs[p].kind = "dir" /\ fs'[p].kind = "none")
                => \A q \in Children(p) : fs'[q].kind = "none"]_vars
    /\ [](LoopDone =>
            \A p \in Paths :
                ( /\ pass_start_fs[p].kind # "none"
                  /\ \E i \in 1..Len(cache_dirs) : IsUnder(cache_dirs[i], p) )
                =>
                IF /\ \E i \in 1..Len(cache_dirs) :
                          Visible(pass_start_fs, cache_dirs[i], p)
                   /\ ~Stuck(pass_start_fs, p)
                THEN fs[p].kind = "none"
                ELSE fs[p] = pass_start_fs[p])

\* C16 witness: after a pass the subdirectory r/d/e, which held one deletable
\* file, is gone, and the directory r/d around it is still there because the
\* locked file r/d/g is.
C16_Witness ==
    /\ LoopDone
    /\ pass_start_fs[RDEH] = File(SizeH)
    /\ pass_start_fs[RDG] = LockedFile(SizeG)
    /\ fs[RDEH].kind = "none"
    /\ fs[RDE].kind = "none"
    /\ fs[RD] = Dir
    /\ fs[RDG] = LockedFile(SizeG)

\* The click on "Clean Cache Now".
ManualClick == Ui /\ pc' = "clean_begin" /\ caller' = "manual"

\* C19: in every state of the panel the clean button can be clicked and
\* starts a pass, whatever the flag, the threshold, the size and the age of
\* the timestamp are; that pass removes every deletable file and writes the
\* timestamp like any other; and an automatic clean starts only 30 seconds
\* or more after the timestamp, so also after that of a manual pass.
C19_ManualBypassesPolicy ==
    /\ [](pc = "ui" => ENABLED ManualClick)
    /\ [][(pc = "ui" /\ pc' = "clean_begin") => caller' = "manual"]_vars
    /\ []((caller = "manual" /\ pc = "clean_measure") =>
            \A p \in Paths :
                Deletable(pass_start_fs, p) => fs[p].kind = "none")
    /\ [][(StampStep /\ caller = "manual") => last_clean_time' = <<now>>]_vars
    /\ [](AutoCleanStarts =>
            (last_clean_time = <<>> \/ now - last_clean_time[1] >= Cooldown))

\* C19 witness: a manual pass starts in the update cycle in which an
\* automatic pass has just run, at the very time of its timestamp, with the
\* flag cleared in the panel and the size below the threshold.
C19_Witness ==
    /\ pc = "clean_begin"
    /\ caller = "manual"
    /\ decision = TRUE
    /\ pass_end # <<>>
    /\ last_clean_time = <<now>>
    /\ ~config.auto_clean_enabled
    /\ GbBelow(cache_size_gb, config.cache_threshold_gb)

\* An update cycle begins with auto-clean enabled, no cooldown in force and
\* the files present measuring at or above the threshold.
CleanIsDue ==
    /\ pc = "measure"
    /\ config.auto_clean_enabled
    /\ ~InCooldown
    /\ F32Ge(ToGB(SumReadableRoots(fs, cache_dirs, 1)), config.cache_threshold_gb)

\* C17: when the policy is evaluated the stored size is the one measured in
\* that cycle from the files then present; is_cleaning is set only while
\* clean_cache walks the roots, so it is clear whenever the policy is
\* evaluated, and whenever the policy returns true an automatic pass starts
\* in that cycle; and as the cycles keep running, a cycle that begins with
\* auto-clean enabled, the cooldown over and the size at or above the
\* threshold leads to an automatic clean pass.
C17_UpdateCycle ==
    /\ [](pc = "policy" =>
            cache_size_gb = ToGB(SumReadableRoots(fs, cache_dirs, 1)))
    /\ [](is_cleaning => pc = "clean_dirs")
    /\ [][PolicyStep =>
            (decision' = TRUE <=> (pc' = "clean_begin" /\ caller' = "auto"))]_vars
    /\ (CleanIsDue ~> AutoCleanStarts)

\* C17 witness: a locked file kept the size at the threshold through an
\* earlier pass, the cooldown has expired, and a later cycle has measured
\* again and starts the next automatic pass.
C17_Witness ==
    /\ AutoCleanStarts
    /\ ~is_cleaning
    /\ pass_end # <<>>
    /\ now - last_clean_time[1] >= Cooldown
    /\ fs[RF] = LockedFile(SizeF)
    /\ config.cache_threshold_gb = Bytes(1, 0)
    /\ cache_size_gb = Bytes(1, 0)

\* The points at which a thread calls lock().
LockPoints == {"policy", "stamp_lock", "label", "idle"}

\* The points at which a thread uses the slot through its guard.
HeldPoints == {"policy_held", "stamp_held", "stamp_half", "label_held", "held"}

\* The window's thread has evaluated Some(Instant::now()) and not yet stored
\* it: seen holds the value to be written.
StampPending == tpc["ui"].at \in {"stamp_lock", "stamp_held", "stamp_half"}

\* C14: a thread uses the slot only while it holds the guard, so the store
\* of clean_cache excludes every read and a half-written slot is never read:
\* every value a thread has read is None or a value that was stored whole;
\* no thread calls lock() while it holds the guard; and at every moment some
\* thread can take a step, so the mutex never deadlocks.
C14_TimestampSafelyShared ==
    /\ [](\A t \in Threads : tpc[t].at \in HeldPoints <=> holder = t)
    /\ [](last_clean_time = Torn => holder = "ui")
    /\ [](\A t \in Threads : (t = "ui" /\ StampPending) \/ seen[t] \in written)
    /\ [](\A t \in Threads : tpc[t].at \in LockPoints => holder # t)
    /\ [](ENABLED LockStep)
    /\ [](holder # "none" =>
            ENABLED (UiPolicyRead \/ UiStampStore \/ UiStampDone \/ UiLabelRead
                     \/ ReaderStep))

\* C14 witness: the store of a second timestamp is half done under the guard
\* of the window's thread, while one reader has read the first timestamp and
\* the other reader has read None, and both are about to call lock() again.
C14_Witness ==
    /\ last_clean_time = Torn
    /\ holder = "ui"
    /\ Cardinality(written) = 2
    /\ seen["t1"] \in written \ {<<>>}
    /\ seen["t2"] = <<>>
    /\ seen["ui"] # seen["t1"]
    /\ tpc["t1"].at = "idle"
    /\ tpc["t2"].at = "idle"

\* ---------------------------------------------------------------------------
\* C18.  On every finite tree (files that can and cannot be deleted, entries
\* whose metadata cannot be read, symbolic links, separate or nested roots)
\* the measurement and the clean pass that follows it both come to an end.
\* On the way each directory is listed at most once for each root, and only
\* what is a directory by its own metadata is ever listed; an entry that is
\* neither a file nor a directory stays as it was together with everything
\* seen through it, and the measurement is the sum calculate_dir_size
\* defines, which leaves such entries out.
C18_WalksTerminate ==
    /\ [](\A i \in 1..Len(cache_dirs) : \A d \in Paths : visits[i][d] <= 1)
    /\ [](\A k \in 1..Len(stack) : fs[stack[k].path].kind = "dir")
    /\ [](\A i \in 1..Len(cache_dirs) : \A d \in Paths :
            visits[i][d] > 0 => pass_start_fs[d].kind = "dir")
    /\ [](\A p \in Paths :
            pass_start_fs[p].kind = "other"
                => \A q \in Paths :
                      (q = p \/ IsUnder(p, q)) => fs[q] = pass_start_fs[q])
    /\ [](pc # "measure" => total_size = SumRoots(pass_start_fs, cache_dirs, 1))
    /\ <>(pc = "clean_dirs")
    /\ <>(pc = "done")

\* Both traversals have ended on nested roots: r/d was listed once for each
\* of the two roots, and the link r/d/e in it was passed over.
C18_Witness ==
    /\ pc = "done"
    /\ cache_dirs = <<R, RD>>
    /\ visits[1][RD] = 1
    /\ visits[2][RD] = 1
    /\ fs[RDE].kind = "other"
    /\ cleaned_count > 0

\* ---------------------------------------------------------------------------
\* The files that were there when the pass began, or were created during
\* it, and are there no more.
Disappeared ==
    {p \in Paths : /\ pass_start_fs[p].kind = "file" \/ p \in created
                   /\ fs[p].kind = "none"}

RemovedFiles == {removed[k] : k \in 1..Len(removed)}

\* A created file has its directory, and the count of the pass is the number
\* of remove_file calls that succeeded, which account for every file gone.
WriterAccounting ==
    /\ \A p \in created : fs[p].kind = "file" => fs[Parent(p)].kind = "dir"
    /\ cleaned_count = Len(removed)
    /\ Disappeared \subseteq RemovedFiles

\* C20 as stated: a file created in a directory after the cleaner called
\* read_dir on that directory in the pass is not deleted in the pass; it
\* keeps its directory alive, and the count of the pass is the number of
\* files the cleaner removed, which account for every file gone.
C20_CreatedAfterListingSurvives ==
    /\ \A p \in late : fs[p].kind = "file"
    /\ WriterAccounting

\* C20, amended.  A file created in a directory when the pass has no
\* iteration of that directory running and none still to come (the directory
\* is not a later root, nor below one) is not deleted in the pass.  While the
\* iteration of its directory runs, or before the directory is listed again
\* for a later root, a created file may be deleted.  Every created file keeps
\* its directory alive, the count of the pass is the number of files the
\* cleaner removed, and they account for every file gone, for any
\* interleaving of the cleaner's steps with the creations.
C20_ConcurrentWriter ==
    /\ \A p \in settled : fs[p] = File(SizeNew)
    /\ WriterAccounting

\* The pass has ended.  It removed r/d/g; a new r/d/g, created when the
\* loop over r/d had ended, is still there and has kept r/d from being
\* removed.
C20_Witness ==
    /\ pc = "done"
    /\ RDG \in settled
    /\ RDG \in RemovedFiles
    /\ fs[RDG] = File(SizeNew)
    /\ fs[RD].kind = "dir"
    /\ cleaned_count = Len(removed)

================================================================
